---- MODULE Spec2Model ----
(***************************************************************************)
(* Model of the batch execution engine of grok-imagine-video-mcp-server:   *)
(* the Semaphore, BatchManager.executeBatch / executeJob, the batch        *)
(* configuration pipeline (loadBatchConfig, validateBatchConfig,           *)
(* mergeBatchConfig, resolveOutputPath) and the batch CLI.                 *)
(*                                                                         *)
(* JavaScript strings are sequences of one-character strings, so that      *)
(* toLowerCase, includes and startsWith are computed and not assumed.      *)
(* An optional value is a set: Undefined (the empty set) or {v}.           *)
(***************************************************************************)
EXTENDS Integers, Sequences, FiniteSets, TLC

----------------------------------------------------------------------------
(* Bounds of the model *)

MaxJobs == 2

----------------------------------------------------------------------------
(* JavaScript values *)

Undefined == {}

Some(v) == {v}

Val(o) == CHOOSE v \in o : TRUE

\* !!o for an optional string: undefined and "" are falsy
Truthy(o) == o # Undefined /\ Val(o) # <<>>

\* !!o for an optional number: undefined and 0 are falsy
TruthyNum(o) == o # Undefined /\ Val(o) # 0

\* o ?? d
Coalesce(o, d) == IF o = Undefined THEN d ELSE Val(o)

\* o || d for an optional number
OrElseNum(o, d) == IF TruthyNum(o) THEN Val(o) ELSE d

LowerOf ==
  [c \in {"A", "B", "D", "E", "I", "L", "M", "P", "Q", "R", "S", "T", "U"} |->
     CASE c = "A" -> "a" [] c = "B" -> "b" [] c = "D" -> "d" [] c = "E" -> "e"
       [] c = "I" -> "i" [] c = "L" -> "l" [] c = "M" -> "m" [] c = "P" -> "p"
       [] c = "Q" -> "q" [] c = "R" -> "r" [] c = "S" -> "s" [] c = "T" -> "t"
       [] c = "U" -> "u"]

\* String.prototype.toLowerCase
toLowerCase(s) ==
  [k \in 1..Len(s) |-> IF s[k] \in DOMAIN LowerOf THEN LowerOf[s[k]] ELSE s[k]]

\* String.prototype.startsWith
startsWith(s, prefix) ==
  /\ Len(prefix) <= Len(s)
  /\ \A k \in 1..Len(prefix) : s[k] = prefix[k]

\* String.prototype.includes
includes(s, sub) ==
  \E off \in 0..(Len(s) - Len(sub)) :
     \A k \in 1..Len(sub) : s[off + k] = sub[k]

----------------------------------------------------------------------------
(* Error messages the executors (generateVideo / editVideo) throw *)

MSG_API_503 == <<"A", "P", "I", " ", "e", "r", "r", "o", "r", " ", "(", "5", "0", "3", ")", ":", " ", "S", "e", "r", "v", "i", "c", "e", " ", "U", "n", "a", "v", "a", "i", "l", "a", "b", "l", "e">>
MSG_BAD_REQUEST == <<"B", "a", "d", " ", "r", "e", "q", "u", "e", "s", "t", ":", " ", "i", "n", "v", "a", "l", "i", "d", " ", "p", "r", "o", "m", "p", "t">>
MSG_RATE_LIMITED == <<"R", "a", "t", "e", " ", "l", "i", "m", "i", "t", " ", "e", "x", "c", "e", "e", "d", "e", "d", ".", " ", "P", "l", "e", "a", "s", "e", " ", "w", "a", "i", "t", " ", "a", "n", "d", " ", "t", "r", "y", " ", "a", "g", "a", "i", "n", ".">>

\* The state holds the name of a message; ErrorText is its text.
ErrorNames == {"api503", "badRequest", "rateLimited"}

\* The failures the xAI service answers with in one run: server errors and
\* rejected requests, or rate limiting (HTTP 429)
FaultSets == {{"api503", "badRequest"}, {"rateLimited"}}

ErrorText(e) ==
  CASE e = "api503" -> MSG_API_503
    [] e = "badRequest" -> MSG_BAD_REQUEST
    [] e = "rateLimited" -> MSG_RATE_LIMITED
    [] OTHER -> <<>>

PAT_rate_limit == <<"r", "a", "t", "e", "_", "l", "i", "m", "i", "t">>
PAT_timeout == <<"t", "i", "m", "e", "o", "u", "t">>
PAT_429 == <<"4", "2", "9">>
PAT_503 == <<"5", "0", "3">>
PAT_BAD == <<"B", "A", "D", " ", "R", "E", "Q", "U", "E", "S", "T">>

DefaultRetryPatterns == <<PAT_rate_limit, PAT_timeout, PAT_429, PAT_503>>

----------------------------------------------------------------------------
(* node:path (posix) on character sequences *)

\* process.cwd()
CWD == <<"/", "w">>

isAbsolute(p) == Len(p) > 0 /\ p[1] = "/"

\* The segments of p between the "/" separators, empty segments included
RECURSIVE SplitPath(_, _, _)
SplitPath(p, k, cur) ==
  IF k > Len(p) THEN <<cur>>
  ELSE IF p[k] = "/" THEN <<cur>> \o SplitPath(p, k + 1, <<>>)
  ELSE SplitPath(p, k + 1, Append(cur, p[k]))

\* Drops "" and "." segments and resolves ".." against the segments kept so
\* far; above the root ".." is dropped, in a relative path it is kept.
RECURSIVE NormalizeSegments(_, _, _, _)
NormalizeSegments(segs, k, acc, absolute) ==
  IF k > Len(segs) THEN acc
  ELSE LET sg == segs[k] IN
    IF sg = <<>> \/ sg = <<".">>
      THEN NormalizeSegments(segs, k + 1, acc, absolute)
    ELSE IF sg = <<".", ".">>
      THEN IF Len(acc) > 0 /\ acc[Len(acc)] # <<".", ".">>
             THEN NormalizeSegments(segs, k + 1, SubSeq(acc, 1, Len(acc) - 1), absolute)
           ELSE IF absolute
             THEN NormalizeSegments(segs, k + 1, acc, absolute)
           ELSE NormalizeSegments(segs, k + 1, Append(acc, sg), absolute)
    ELSE NormalizeSegments(segs, k + 1, Append(acc, sg), absolute)

RECURSIVE JoinSegments(_, _)
JoinSegments(segs, k) ==
  IF k > Len(segs) THEN <<>>
  ELSE IF k = Len(segs) THEN segs[k]
  ELSE segs[k] \o <<"/">> \o JoinSegments(segs, k + 1)

\* path.normalize
pathNormalize(p) ==
  LET segs == NormalizeSegments(SplitPath(p, 1, <<>>), 1, <<>>, isAbsolute(p))
      body == JoinSegments(segs, 1)
  IN IF isAbsolute(p) THEN <<"/">> \o body
     ELSE IF body = <<>> THEN <<".">> ELSE body

\* path.join(a, b)
pathJoin(a, b) == pathNormalize(a \o <<"/">> \o b)

\* path.resolve(p)
pathResolve(p) ==
  IF isAbsolute(p) THEN pathNormalize(p)
  ELSE pathNormalize(CWD \o <<"/">> \o p)

\* Decimal text of a small job number
DigitText(n) ==
  CASE n = 0 -> <<"0">> [] n = 1 -> <<"1">> [] n = 2 -> <<"2">> [] n = 3 -> <<"3">>
    [] n = 4 -> <<"4">> [] n = 5 -> <<"5">> [] n = 6 -> <<"6">> [] n = 7 -> <<"7">>
    [] n = 8 -> <<"8">> [] n = 9 -> <<"9">>

RECURSIVE NumberText(_)
NumberText(n) == IF n < 10 THEN DigitText(n) ELSE NumberText(n \div 10) \o DigitText(n % 10)

----------------------------------------------------------------------------
(* Job classification and output path resolution *)

\* executeJob: const isEditJob = !!job.video_url
isEditJob(job) == Truthy(job.video_url)

\* executeJob: const isImageToVideoJob = !!job.image_url || !!job.image_path
isImageToVideoJob(job) == Truthy(job.image_url) \/ Truthy(job.image_path)

\* The thrown BatchConfigError is the value ConfigError, which is no path
ConfigError == <<"BatchConfigError">>

\* resolveOutputPath(job, index, outputDir, allowAnyPath); index is 0-based
resolveOutputPath(job, index, outputDir, allowAnyPath) ==
  IF Truthy(job.output_path)
    THEN IF isAbsolute(Val(job.output_path))
           THEN IF ~allowAnyPath
                     /\ ~startsWith(pathResolve(Val(job.output_path)), pathResolve(outputDir))
                  THEN ConfigError
                  ELSE Val(job.output_path)
           ELSE pathJoin(outputDir, Val(job.output_path))
    ELSE LET prefix == IF Truthy(job.video_url) THEN <<"e", "d", "i", "t", "e", "d">>
                       ELSE IF Truthy(job.image_url) THEN <<"a", "n", "i", "m", "a", "t", "e", "d">>
                       ELSE <<"g", "e", "n", "e", "r", "a", "t", "e", "d">>
         IN pathJoin(outputDir,
                     prefix \o <<"_">> \o NumberText(index + 1) \o <<".", "m", "p", "4">>)

----------------------------------------------------------------------------
(* Program constants of types/tools.ts and batch-config.ts *)

MODELS == {"grok-imagine-video"}
ASPECT_RATIOS == {"16:9", "4:3", "1:1", "9:16", "3:4", "3:2", "2:3"}
RESOLUTIONS == {"720p", "480p"}
MIN_DURATION == 1
MAX_DURATION == 15
DEFAULT_DURATION == 5
DEFAULT_POLL_INTERVAL == 5000
DEFAULT_MAX_POLL_ATTEMPTS == 120

----------------------------------------------------------------------------
(* validateBatchConfig: TRUE when no BatchConfigError is thrown *)

\* job.prompt.trim().length === 0
isBlank(s) == \A k \in 1..Len(s) : s[k] = " "

\* value !== undefined && (value < lo || value > hi)
outOfRange(o, lo, hi) == o # Undefined /\ (Val(o) < lo \/ Val(o) > hi)

\* validateJobConfig(job, index): the checks in the order of the source;
\* the job type of the validator is isEditJob = !!job.video_url and
\* isImageToVideoJob = !!job.image_url
validateJobConfig(job) ==
  LET isEdit == Truthy(job.video_url)
      isImageToVideo == Truthy(job.image_url)
  IN /\ ~(job.prompt = <<>> \/ isBlank(job.prompt))
     /\ job.model # Undefined => Val(job.model) \in MODELS
     /\ job.duration # Undefined =>
           /\ ~isEdit
           /\ ~outOfRange(job.duration, MIN_DURATION, MAX_DURATION)
     /\ job.aspect_ratio # Undefined =>
           /\ ~isEdit
           /\ Val(job.aspect_ratio) \in ASPECT_RATIOS
     /\ job.resolution # Undefined => Val(job.resolution) \in RESOLUTIONS
     /\ isEdit => ~isImageToVideo

\* validateRetryPolicy(policy)
validateRetryPolicy(policy) ==
  /\ ~outOfRange(policy.max_retries, 0, 5)
  /\ ~outOfRange(policy.retry_delay_ms, 100, 60000)

\* validateBatchConfig(config)
validateBatchConfig(cfg) ==
  /\ Len(cfg.jobs) # 0
  /\ Len(cfg.jobs) <= 100
  /\ \A k \in 1..Len(cfg.jobs) : validateJobConfig(cfg.jobs[k])
  /\ ~outOfRange(cfg.max_concurrent, 1, 10)
  /\ ~outOfRange(cfg.timeout, 1000, 3600000)
  /\ ~outOfRange(cfg.poll_interval, 1000, 60000)
  /\ ~outOfRange(cfg.max_poll_attempts, 1, 1000)
  /\ cfg.retry_policy # Undefined => validateRetryPolicy(Val(cfg.retry_policy))
  /\ cfg.default_model # Undefined => Val(cfg.default_model) \in MODELS
  /\ cfg.default_resolution # Undefined => Val(cfg.default_resolution) \in RESOLUTIONS
  /\ cfg.default_aspect_ratio # Undefined => Val(cfg.default_aspect_ratio) \in ASPECT_RATIOS
  /\ ~outOfRange(cfg.default_duration, MIN_DURATION, MAX_DURATION)

----------------------------------------------------------------------------
(* parseArgs of the batch CLI *)

DigitValue ==
  [c \in {"0", "1", "2", "3", "4", "5", "6", "7", "8", "9"} |->
     CASE c = "0" -> 0 [] c = "1" -> 1 [] c = "2" -> 2 [] c = "3" -> 3 [] c = "4" -> 4
       [] c = "5" -> 5 [] c = "6" -> 6 [] c = "7" -> 7 [] c = "8" -> 8 [] c = "9" -> 9]

\* The value of the digits of s from position k on, up to the first character
\* that is no digit; acc is the value so far
RECURSIVE parseDigits(_, _, _)
parseDigits(s, k, acc) ==
  IF k > Len(s) \/ s[k] \notin DOMAIN DigitValue THEN acc
  ELSE parseDigits(s, k + 1, 10 * acc + DigitValue[s[k]])

\* parseInt(s, 10): an optional sign, then digits; NaN (the empty set) when no
\* digit follows. parseInt(undefined, 10) is NaN.
parseInt(o) ==
  IF o = Undefined THEN {}
  ELSE LET s == Val(o)
           neg == Len(s) > 0 /\ s[1] = "-"
           first == IF neg THEN 2 ELSE 1
       IN IF first > Len(s) \/ s[first] \notin DOMAIN DigitValue THEN {}
          ELSE IF neg THEN {0 - parseDigits(s, first, 0)}
          ELSE {parseDigits(s, first, 0)}

isNaN(n) == n = {}

\* The command line: the text that follows each option, Undefined when the
\* option is not given, and the two flags
ArgsOf(outputDir, timeout, maxConcurrent, pollInterval, maxPollAttempts, estimateOnly, anyPath) ==
  [outputDir |-> outputDir, timeout |-> timeout, maxConcurrent |-> maxConcurrent, pollInterval |-> pollInterval,
   maxPollAttempts |-> maxPollAttempts, estimateOnly |-> estimateOnly,
   allowAnyPath |-> anyPath]

\* parseArgs: TRUE when no option makes it print an error and exit(1)
parseArgsOk(a) ==
  /\ a.outputDir # Undefined => Truthy(a.outputDir)
  /\ a.timeout # Undefined =>
        ~(isNaN(parseInt(a.timeout)) \/ Val(parseInt(a.timeout)) < 1000)
  /\ a.maxConcurrent # Undefined =>
        ~(isNaN(parseInt(a.maxConcurrent)) \/ Val(parseInt(a.maxConcurrent)) < 1
                                           \/ Val(parseInt(a.maxConcurrent)) > 10)
  /\ a.pollInterval # Undefined =>
        ~(isNaN(parseInt(a.pollInterval)) \/ Val(parseInt(a.pollInterval)) < 1000)
  /\ a.maxPollAttempts # Undefined =>
        ~(isNaN(parseInt(a.maxPollAttempts)) \/ Val(parseInt(a.maxPollAttempts)) < 1)

\* parseArgs: the BatchExecutionOptions it returns
parseArgs(a) ==
  [timeout |-> IF a.timeout = Undefined THEN Undefined ELSE parseInt(a.timeout),
   maxConcurrent |-> IF a.maxConcurrent = Undefined THEN Undefined
                     ELSE parseInt(a.maxConcurrent),
   pollInterval |-> IF a.pollInterval = Undefined THEN Undefined
                    ELSE parseInt(a.pollInterval),
   maxPollAttempts |-> IF a.maxPollAttempts = Undefined THEN Undefined
                       ELSE parseInt(a.maxPollAttempts),
   outputDir |-> a.outputDir,
   estimateOnly |-> a.estimateOnly,
   allowAnyPath |-> a.allowAnyPath]

NoOptions ==
  [timeout |-> Undefined, maxConcurrent |-> Undefined, pollInterval |-> Undefined,
   maxPollAttempts |-> Undefined, outputDir |-> Undefined, estimateOnly |-> FALSE,
   allowAnyPath |-> FALSE]

----------------------------------------------------------------------------
(* mergeBatchConfig *)

DefaultRetryPolicy ==
  [max_retries |-> Some(2), retry_delay_ms |-> Some(1000),
   retry_on_errors |-> Some(DefaultRetryPatterns)]

\* option !== undefined ? option : value
override(option, value) == IF option # Undefined THEN option ELSE value

\* value ?? d, as an optional value
orDefault(o, d) == IF o = Undefined THEN Some(d) ELSE o

\* mergeBatchConfig(config, options); envOutputDir is process.env.OUTPUT_DIR
mergeBatchConfig(cfg, opts, envOutputDir) ==
  [jobs |-> cfg.jobs,
   output_dir |-> IF Truthy(opts.outputDir) THEN opts.outputDir
                  ELSE IF ~Truthy(cfg.output_dir) /\ Truthy(envOutputDir) THEN envOutputDir
                  ELSE cfg.output_dir,
   max_concurrent |-> orDefault(override(opts.maxConcurrent, cfg.max_concurrent), 2),
   timeout |-> orDefault(override(opts.timeout, cfg.timeout), 600000),
   poll_interval |-> orDefault(override(opts.pollInterval, cfg.poll_interval),
                               DEFAULT_POLL_INTERVAL),
   max_poll_attempts |-> orDefault(override(opts.maxPollAttempts, cfg.max_poll_attempts),
                                   DEFAULT_MAX_POLL_ATTEMPTS),
   retry_policy |-> orDefault(cfg.retry_policy, DefaultRetryPolicy),
   default_model |-> orDefault(cfg.default_model, "grok-imagine-video"),
   default_resolution |-> orDefault(cfg.default_resolution, "720p"),
   default_aspect_ratio |-> orDefault(cfg.default_aspect_ratio, "16:9"),
   default_duration |-> orDefault(cfg.default_duration, DEFAULT_DURATION)]


----------------------------------------------------------------------------
(* Batch configurations of the run model *)

OUTPUT_DIR == <<"/", "o">>
PATH_OUTSIDE == <<"/", "t", "/", "a">>
PATH_SIBLING == <<"/", "o", "2", "/", "a">>
PROMPT == <<"p">>
URL == <<"u">>

JobOf(video_url, image_url, image_path, output_path, duration) ==
  [prompt |-> PROMPT, model |-> Undefined, video_url |-> video_url,
   image_url |-> image_url, image_path |-> image_path,
   output_path |-> output_path, duration |-> duration,
   aspect_ratio |-> Undefined, resolution |-> Undefined]

GenerationJob == JobOf(Undefined, Undefined, Undefined, Undefined, Undefined)
EditJob == JobOf(Some(URL), Undefined, Undefined, Undefined, Undefined)
OutsideJob == JobOf(Undefined, Some(URL), Undefined, Some(PATH_OUTSIDE), Undefined)
SiblingJob == JobOf(Undefined, Undefined, Undefined, Some(PATH_SIBLING), Undefined)

RetryPolicy3(max_retries, retry_delay_ms, retry_on_errors) ==
  [max_retries |-> max_retries, retry_delay_ms |-> retry_delay_ms,
   retry_on_errors |-> retry_on_errors]

RetryPolicyOf(max_retries, retry_on_errors) ==
  RetryPolicy3(max_retries, Undefined, retry_on_errors)

RunRetryPolicies ==
  { Undefined,
    Some(RetryPolicyOf(Some(0), Undefined)),
    Some(RetryPolicyOf(Some(1), Some(<<PAT_BAD>>))) }

ConfigOf(jobs, max_concurrent, retry_policy) ==
  [jobs |-> jobs, output_dir |-> Some(OUTPUT_DIR), max_concurrent |-> max_concurrent,
   timeout |-> Undefined, poll_interval |-> Undefined,
   max_poll_attempts |-> Undefined, retry_policy |-> retry_policy,
   default_model |-> Undefined, default_resolution |-> Undefined,
   default_aspect_ratio |-> Undefined, default_duration |-> Undefined]

\* n jobs: an edit job first, generation jobs behind it, and the job with an
\* output path outside the output directory at position bad (0: nowhere)
JobList(n, bad) ==
  [i \in 1..n |-> IF i = bad THEN OutsideJob
                  ELSE IF i = 1 THEN EditJob
                  ELSE GenerationJob]

\* and the lists that end with the job whose output path is in the sibling
\* directory
JobLists ==
  { JobList(n, bad) : n \in 1..MaxJobs, bad \in 0..MaxJobs }
  \cup { [JobList(n, 0) EXCEPT ![n] = SiblingJob] : n \in 1..MaxJobs }

\* The options of a run: allowAnyPath is granted where the first job's path
\* needs it
RunOptions(cfg) ==
  { [NoOptions EXCEPT !.allowAnyPath = b] :
       b \in IF cfg.jobs[1] = OutsideJob THEN BOOLEAN ELSE {FALSE} }

RunConfigs ==
  { ConfigOf(jobs, mc, rp) :
      jobs \in JobLists, mc \in {Undefined, Some(1)}, rp \in RunRetryPolicies }

----------------------------------------------------------------------------
(* State: the batch CLI process and the executeBatch call *)

VARIABLES
  argv,          \* the command line of the batch CLI
  file,          \* the configuration file: its state and its parsed content
  envOutputDir,  \* process.env.OUTPUT_DIR
  cliPc,         \* where main() is; "none" when executeBatch is called directly
  exitCode,      \* the code of process.exit, Undefined while running
  faults,        \* the names of the messages the executors fail with in this run
  estimate,      \* the CostEstimate printed by --estimate-only, Undefined before
  config,        \* the BatchConfig passed to executeBatch
  options,       \* the BatchExecutionOptions passed to executeBatch
  batchPc,       \* where executeBatch is: launch, racing, grace, returned, threw
  launched,      \* the loop variable i of the launch loop
  permits,       \* Semaphore.permits
  queue,         \* Semaphore.queue: the job numbers whose resolve is queued
  jobPc,         \* where each job task is
  attempt,       \* executeJob's loop variable, per job
  calls,         \* number of executor invocations, per job
  errors,        \* the messages of the failed attempts, per job, in order
  results,       \* the results array
  timedOut,      \* the timedOut flag
  atDeadline,    \* history: the job numbers with a result when the timer fired
  report,        \* the totals of the returned BatchResult, Undefined before
  fs,            \* the paths of the files that exist
  exPath,        \* generateVideo's normalizedPath, per job, Undefined before
  pollPc,        \* where pollVideoResult is: idle, fetching, sleeping, returned, threw
  pollAttempt,   \* pollVideoResult's loop variable attempt
  maxAttempts,   \* pollVideoResult's parameter maxAttempts
  pollRequests,  \* history: the number of status requests sent
  polled,        \* history: the responses received, in order
  pollOutcome    \* what pollVideoResult returned or threw, Undefined before

cliVars == <<argv, file, envOutputDir, faults, cliPc, exitCode, estimate>>

runVars == <<batchPc, launched, permits, queue, jobPc, attempt, calls, errors,
             results, timedOut, atDeadline, report>>

\* The executor's files and paths
execVars == <<fs, exPath>>

\* A call of pollVideoResult
pollVars == <<pollPc, pollAttempt, maxAttempts, pollRequests, polled, pollOutcome>>

toolVars == <<execVars, pollVars>>

vars == <<cliVars, config, options, runVars, toolVars>>

NumJobs == Len(config.jobs)
JobIds == 1..NumJobs

\* executeBatch: const maxConcurrent = config.max_concurrent || 2
maxConcurrentOf(cfg) == OrElseNum(cfg.max_concurrent, 2)

\* executeBatch: const outputDir = config.output_dir || getDefaultOutputDirectory()
outputDirOf(cfg) == IF Truthy(cfg.output_dir) THEN Val(cfg.output_dir) ELSE CWD

\* executeJob: config.retry_policy || { max_retries: 2, retry_delay_ms: 1000 }
retryPolicyOf(cfg) ==
  IF cfg.retry_policy # Undefined THEN Val(cfg.retry_policy)
  ELSE RetryPolicyOf(Some(2), Undefined)

\* Variant of maxRetriesOf: || in place of ??, so that 0 gives the default
maxRetriesOf_or(cfg) == OrElseNum(retryPolicyOf(cfg).max_retries, 2)

\* executeJob: const maxRetries = retryPolicy.max_retries ?? 2
maxRetriesOf(cfg) == Coalesce(retryPolicyOf(cfg).max_retries, 2)

\* executeJob: retryPolicy.retry_on_errors ?? ['rate_limit', 'timeout', '429', '503']
retryPatternsOf(cfg) == Coalesce(retryPolicyOf(cfg).retry_on_errors, DefaultRetryPatterns)

\* retryPatterns.some((pattern) => lastError.toLowerCase().includes(pattern.toLowerCase()))
matchesRetryPattern(lastError, retryPatterns) ==
  LET lower == toLowerCase(lastError) IN
  \E k \in 1..Len(retryPatterns) : includes(lower, toLowerCase(retryPatterns[k]))

\* executeJob: const shouldRetry = attempt < maxRetries && retryPatterns.some(...)
shouldRetry(att, maxRetries, lastError, retryPatterns) ==
  att < maxRetries /\ matchesRetryPattern(lastError, retryPatterns)

\* Variant of loopContinues: one attempt short
loopContinues_short(att, maxRetries) == att < maxRetries

\* executeJob: the condition of for (let attempt = 0; attempt <= maxRetries; attempt++)
loopContinues(att, maxRetries) == att <= maxRetries

\* The state in which executeBatch(cfg, ...) starts
StartBatch(cfg) ==
  /\ batchPc = "launch"
  /\ launched = 0
  /\ permits = maxConcurrentOf(cfg)
  /\ queue = <<>>
  /\ jobPc = [i \in 1..Len(cfg.jobs) |-> "idle"]
  /\ attempt = [i \in 1..Len(cfg.jobs) |-> 0]
  /\ calls = [i \in 1..Len(cfg.jobs) |-> 0]
  /\ errors = [i \in 1..Len(cfg.jobs) |-> <<>>]
  /\ results = <<>>
  /\ timedOut = FALSE
  /\ atDeadline = {}
  /\ report = Undefined

\* No file exists, no executor has chosen a path, pollVideoResult is not called
ToolsIdle(cfg) ==
  /\ fs = {}
  /\ exPath = [i \in 1..Len(cfg.jobs) |-> Undefined]
  /\ pollPc = "idle"
  /\ pollAttempt = 0
  /\ maxAttempts = 0
  /\ pollRequests = 0
  /\ polled = <<>>
  /\ pollOutcome = Undefined

NoArgs == ArgsOf(Undefined, Undefined, Undefined, Undefined, Undefined, FALSE, FALSE)

NoConfig == ConfigOf(<<>>, Undefined, Undefined)

NoFile == [state |-> "missing", config |-> NoConfig]

\* executeBatch is called directly with a configuration and options
Init ==
  /\ argv = NoArgs
  /\ file = NoFile
  /\ envOutputDir = Undefined
  /\ faults \in FaultSets
  /\ cliPc = "none"
  /\ exitCode = Undefined
  /\ estimate = Undefined
  /\ config \in RunConfigs
  /\ options \in RunOptions(config)
  /\ StartBatch(config)
  /\ ToolsIdle(config)

----------------------------------------------------------------------------
(* Semaphore *)

\* Variant of enqueue: the caller goes to the front of the queue
enqueue_atFront(q, i) == <<i>> \o q

\* acquire(): this.queue.push(resolve)
enqueue(q, i) == Append(q, i)

\* Variant of SemAcquire: takes a permit when the counter is 0 as well
SemAcquire_offByOne(p, q, i) ==
  IF p >= 0
    THEN [permits |-> p - 1, queue |-> q, granted |-> TRUE]
    ELSE [permits |-> p, queue |-> enqueue(q, i), granted |-> FALSE]

\* acquire(): takes a permit when one is free, otherwise queues the caller.
\* granted tells whether the returned promise is already resolved.
SemAcquire(p, q, i) ==
  IF p > 0
    THEN [permits |-> p - 1, queue |-> q, granted |-> TRUE]
    ELSE [permits |-> p, queue |-> enqueue(q, i), granted |-> FALSE]

\* Variant of SemRelease: the permit goes back to the counter although a
\* caller is queued
SemRelease_noHandOver(p, q) == [permits |-> p + 1, queue |-> q, next |-> Undefined]

\* release(): hands the permit to the first queued caller (next is that
\* caller), otherwise returns it to the counter.
SemRelease(p, q) ==
  IF q # <<>>
    THEN [permits |-> p, queue |-> Tail(q), next |-> Some(Head(q))]
    ELSE [permits |-> p + 1, queue |-> q, next |-> Undefined]

----------------------------------------------------------------------------
(* Results *)

CompletedResult(i, job) ==
  [index |-> i, status |-> "completed", error |-> Undefined,
   is_edit |-> Some(isEditJob(job)), is_image_to_video |-> Some(isImageToVideoJob(job))]

\* Variant of FailedResult: the exhausted job is reported completed
FailedResult_asCompleted(i, job, lastError) ==
  [index |-> i, status |-> "completed", error |-> Undefined,
   is_edit |-> Some(isEditJob(job)), is_image_to_video |-> Some(isImageToVideoJob(job))]

\* executeJob: the result returned when all retries are exhausted
FailedResult(i, job, lastError) ==
  [index |-> i, status |-> "failed", error |-> Some(lastError),
   is_edit |-> Some(isEditJob(job)), is_image_to_video |-> Some(isImageToVideoJob(job))]

CancelledResult(i) ==
  [index |-> i, status |-> "cancelled", error |-> Some("Job cancelled due to timeout"),
   is_edit |-> Undefined, is_image_to_video |-> Undefined]

\* Variant of completedIndices: only the completed results count
completedIndices_onlyCompleted(res) ==
  { res[k].index : k \in { n \in 1..Len(res) : res[n].status = "completed" } }

\* new Set(results.map((r) => r.index))
completedIndices(res) == { res[k].index : k \in 1..Len(res) }

\* The loop that pushes a cancelled result for every index without a result
RECURSIVE markCancelled(_, _, _)
markCancelled(res, i, n) ==
  IF i > n THEN res
  ELSE IF i \notin completedIndices(res)
    THEN markCancelled(Append(res, CancelledResult(i)), i + 1, n)
    ELSE markCancelled(res, i + 1, n)

\* The position of element k after the sort: behind the elements with a
\* smaller index and the earlier elements with the same index (the sort is
\* stable)
rankByIndex(res, k) ==
  1 + Cardinality({ j \in 1..Len(res) :
                      \/ res[j].index < res[k].index
                      \/ res[j].index = res[k].index /\ j < k })

\* results.sort((a, b) => a.index - b.index)
sortByIndex(res) ==
  [p \in 1..Len(res) |-> res[CHOOSE k \in 1..Len(res) : rankByIndex(res, k) = p]]

\* Variant of finalizeResults: the sort is left out
finalizeResults_unsorted(res, n) == markCancelled(res, 1, n)

\* Lines 209-223 of executeBatch: reconcile, then sort
finalizeResults(res, n) == sortByIndex(markCancelled(res, 1, n))

----------------------------------------------------------------------------
(* estimateBatchCost. Money is in thousandths of a dollar, so that the rates
   0.05, 0.07 and 0.01 and the factor 1.2 are whole-number operations. *)

VIDEO_COSTS ==
  [generation |-> [perSecond |-> 50],
   image_to_video |-> [perSecond |-> 50, imageBonus |-> 10],
   edit |-> [perSecond |-> 70]]

\* The keys of typeCounts in the order of Object.entries
TypeOrder == <<"generation", "image_to_video", "edit">>

\* Variant of jobTypeOf: only image_url makes an image-to-video job
jobTypeOf_urlOnly(job) ==
  IF Truthy(job.video_url) THEN "edit"
  ELSE IF Truthy(job.image_url) THEN "image_to_video"
  ELSE "generation"

\* The type estimateBatchCost gives a job: isEdit, else isImageToVideo
jobTypeOf(job) ==
  IF Truthy(job.video_url) THEN "edit"
  ELSE IF Truthy(job.image_url) \/ Truthy(job.image_path) THEN "image_to_video"
  ELSE "generation"

\* The duration it counts: 5 for an edit, else job.duration ?? defaultDuration
jobDurationOf(job, defaultDuration) ==
  IF jobTypeOf(job) = "edit" THEN 5 ELSE Coalesce(job.duration, defaultDuration)

\* The first loop: typeCounts[type].count++ and .totalDuration += duration
RECURSIVE countTypes(_, _, _, _)
countTypes(jobs, k, typeCounts, defaultDuration) ==
  IF k > Len(jobs) THEN typeCounts
  ELSE countTypes(jobs, k + 1,
         [typeCounts EXCEPT ![jobTypeOf(jobs[k])] =
            [count |-> @.count + 1,
             totalDuration |-> @.totalDuration + jobDurationOf(jobs[k], defaultDuration)]],
         defaultDuration)

\* Variant of bucketCost: the image bonus is left out
bucketCost_noBonus(type, data) == VIDEO_COSTS[type].perSecond * data.totalDuration

\* costs.perSecond * data.totalDuration, plus imageBonus * data.count for
\* image_to_video
bucketCost(type, data) ==
  IF type = "image_to_video"
    THEN VIDEO_COSTS[type].perSecond * data.totalDuration
           + VIDEO_COSTS[type].imageBonus * data.count
    ELSE VIDEO_COSTS[type].perSecond * data.totalDuration

\* cost * 1.2
withMargin(cost) == (cost * 12) \div 10

\* The second loop, over the entries of typeCounts from entry k on
RECURSIVE tallyTypes(_, _, _)
tallyTypes(typeCounts, k, acc) ==
  IF k > Len(TypeOrder) THEN acc
  ELSE LET type == TypeOrder[k]
           data == typeCounts[type]
           cost == bucketCost(type, data)
       IN IF data.count = 0 THEN tallyTypes(typeCounts, k + 1, acc)
          ELSE tallyTypes(typeCounts, k + 1,
                 [breakdown |-> Append(acc.breakdown,
                                  [type |-> type, count |-> data.count,
                                   totalDuration |-> data.totalDuration,
                                   costMin |-> cost, costMax |-> withMargin(cost)]),
                  totalMin |-> acc.totalMin + cost,
                  totalMax |-> acc.totalMax + withMargin(cost),
                  totalVideoDuration |-> acc.totalVideoDuration + data.totalDuration])

\* estimateBatchCost(config)
estimateBatchCost(cfg) ==
  LET typeCounts ==
        countTypes(cfg.jobs, 1,
                   [t \in {"generation", "image_to_video", "edit"} |->
                      [count |-> 0, totalDuration |-> 0]],
                   Coalesce(cfg.default_duration, DEFAULT_DURATION))
      acc == tallyTypes(typeCounts, 1,
                        [breakdown |-> <<>>, totalMin |-> 0, totalMax |-> 0,
                         totalVideoDuration |-> 0])
  IN [totalJobs |-> Len(cfg.jobs),
      totalVideoDuration |-> acc.totalVideoDuration,
      estimatedCostMin |-> acc.totalMin,
      estimatedCostMax |-> acc.totalMax,
      breakdown |-> acc.breakdown]

----------------------------------------------------------------------------
(* The returned BatchResult *)

countStatus(res, st) == Cardinality({ k \in 1..Len(res) : res[k].status = st })

\* The totals of the returned BatchResult
reportOf(res, n) ==
  [total |-> n, succeeded |-> countStatus(res, "completed"),
   failed |-> countStatus(res, "failed"), cancelled |-> countStatus(res, "cancelled")]

----------------------------------------------------------------------------
(* executeBatch and the job tasks *)

\* executeBatch has been called and the process has not exited
Running == cliPc \in {"none", "executing"}

AllSettled == \A i \in JobIds : jobPc[i] = "settled"

\* Variant of MicrotaskPending: the reaction of the resolved Promise.all has
\* no priority over the timers
MicrotaskPending_timerBeforeAll ==
  \/ \E i \in JobIds : jobPc[i] = "acquired"
  \/ cliPc = "executing" /\ batchPc \in {"returned", "threw"}

\* A promise reaction is queued: a job task that holds a permit and has not
\* resumed after await semaphore.acquire(), the resolved Promise.all, or
\* main() awaiting the settled executeBatch.
\* Microtasks run before any timer or I/O callback.
MicrotaskPending ==
  \/ \E i \in JobIds : jobPc[i] = "acquired"
  \/ batchPc = "racing" /\ AllSettled
  \/ cliPc = "executing" /\ batchPc \in {"returned", "threw"}

\* One iteration of the launch loop: resolveOutputPath, then the job task
\* runs up to its await semaphore.acquire(). A BatchConfigError leaves the
\* loop and rejects executeBatch.
LaunchJob ==
  /\ Running
  /\ batchPc = "launch"
  /\ launched < NumJobs
  /\ LET i == launched + 1
         outputPath == resolveOutputPath(config.jobs[i], launched,
                                         outputDirOf(config), options.allowAnyPath)
         sem == SemAcquire(permits, queue, i)
     IN IF outputPath = ConfigError
          THEN /\ batchPc' = "threw"
               /\ UNCHANGED <<launched, permits, queue, jobPc>>
          ELSE /\ launched' = i
               /\ permits' = sem.permits
               /\ queue' = sem.queue
               /\ jobPc' = [jobPc EXCEPT ![i] = IF sem.granted THEN "acquired" ELSE "queued"]
               /\ UNCHANGED batchPc
  /\ UNCHANGED <<toolVars, cliVars, config, options, attempt, calls, errors, results, timedOut, atDeadline, report>>

\* The launch loop is over: executeBatch awaits Promise.race([...])
StartRace ==
  /\ Running
  /\ batchPc = "launch"
  /\ launched = NumJobs
  /\ batchPc' = "racing"
  /\ UNCHANGED <<toolVars, cliVars, config, options, launched, permits, queue, jobPc, attempt,
                 calls, errors, results, timedOut, atDeadline, report>>

\* The job task resumes with its permit and executeJob invokes the executor
\* for attempt 0.
JobResume(i) ==
  /\ Running
  /\ batchPc # "launch"
  /\ jobPc[i] = "acquired"
  /\ jobPc' = [jobPc EXCEPT ![i] = "executing"]
  /\ attempt' = [attempt EXCEPT ![i] = 0]
  /\ calls' = [calls EXCEPT ![i] = @ + 1]
  /\ UNCHANGED <<toolVars, cliVars, config, options, batchPc, launched, permits, queue, errors,
                 results, timedOut, atDeadline, report>>

\* Variant of Settle: the job task ends without semaphore.release()
Settle_noRelease(i, result) ==
  /\ results' = Append(results, result)
  /\ jobPc' = [jobPc EXCEPT ![i] = "settled"]
  /\ UNCHANGED <<permits, queue>>

\* executeJob returned result: results.push(result), then semaphore.release()
\* in the finally block; the job task is settled.
Settle(i, result) ==
  LET sem == SemRelease(permits, queue) IN
  /\ results' = Append(results, result)
  /\ permits' = sem.permits
  /\ queue' = sem.queue
  /\ jobPc' = [j \in JobIds |->
                 IF j = i THEN "settled"
                 ELSE IF sem.next = Some(j) THEN "acquired"
                 ELSE jobPc[j]]

\* The executor's promise resolves: executeJob returns the completed result.
ExecutorResolves(i) ==
  /\ Running
  /\ batchPc # "launch"
  /\ ~MicrotaskPending
  /\ jobPc[i] = "executing"
  /\ Settle(i, CompletedResult(i, config.jobs[i]))
  /\ UNCHANGED <<toolVars, cliVars, config, options, batchPc, launched, attempt, calls, errors,
                 timedOut, atDeadline, report>>

\* The for loop of executeJob goes to attempt att: the executor is invoked
\* again while att <= maxRetries, otherwise the failed result is returned.
NextAttempt(i, att, errs) ==
  /\ attempt' = [attempt EXCEPT ![i] = att]
  /\ errors' = [errors EXCEPT ![i] = errs]
  /\ IF loopContinues(att, maxRetriesOf(config))
       THEN /\ calls' = [calls EXCEPT ![i] = @ + 1]
            /\ jobPc' = [jobPc EXCEPT ![i] = "executing"]
            /\ UNCHANGED <<permits, queue, results>>
       ELSE /\ Settle(i, FailedResult(i, config.jobs[i], errs[Len(errs)]))
            /\ UNCHANGED calls

\* Variant of ExecutorRejects: the permit is released for the retry delay
ExecutorRejects_releasesToWait(i, e) ==
  /\ Running
  /\ batchPc # "launch"
  /\ ~MicrotaskPending
  /\ jobPc[i] = "executing"
  /\ IF shouldRetry(attempt[i], maxRetriesOf(config), ErrorText(e), retryPatternsOf(config))
       THEN LET sem == SemRelease(permits, queue) IN
            /\ jobPc' = [j \in JobIds |->
                           IF j = i THEN "retryDelay"
                           ELSE IF sem.next = Some(j) THEN "acquired"
                           ELSE jobPc[j]]
            /\ permits' = sem.permits
            /\ queue' = sem.queue
            /\ errors' = [errors EXCEPT ![i] = Append(@, e)]
            /\ UNCHANGED <<attempt, calls, results>>
       ELSE NextAttempt(i, attempt[i] + 1, Append(errors[i], e))
  /\ UNCHANGED <<toolVars, cliVars, config, options, batchPc, launched, timedOut, atDeadline, report>>

\* The executor's promise rejects with message e: the catch block sets
\* lastError and waits retryDelay if shouldRetry; otherwise the loop goes on
\* to the next attempt at once.
ExecutorRejects(i, e) ==
  /\ Running
  /\ batchPc # "launch"
  /\ ~MicrotaskPending
  /\ jobPc[i] = "executing"
  /\ IF shouldRetry(attempt[i], maxRetriesOf(config), ErrorText(e), retryPatternsOf(config))
       THEN /\ jobPc' = [jobPc EXCEPT ![i] = "retryDelay"]
            /\ errors' = [errors EXCEPT ![i] = Append(@, e)]
            /\ UNCHANGED <<attempt, calls, permits, queue, results>>
       ELSE NextAttempt(i, attempt[i] + 1, Append(errors[i], e))
  /\ UNCHANGED <<toolVars, cliVars, config, options, batchPc, launched, timedOut, atDeadline, report>>

\* The retry delay timer fires: the loop goes on to the next attempt.
RetryDelayElapses(i) ==
  /\ Running
  /\ batchPc # "launch"
  /\ ~MicrotaskPending
  /\ jobPc[i] = "retryDelay"
  /\ NextAttempt(i, attempt[i] + 1, errors[i])
  /\ UNCHANGED <<toolVars, cliVars, config, options, batchPc, launched, timedOut, atDeadline, report>>

\* Lines 209-246: reconcile, sort, tally and return
Finalize ==
  \E final \in {finalizeResults(results, NumJobs)} :
     /\ results' = final
     /\ report' = Some(reportOf(final, NumJobs))
     /\ batchPc' = "returned"

\* Promise.all(jobPromises) resolved before the timer fired.
BatchAllSettled ==
  /\ Running
  /\ batchPc = "racing"
  /\ AllSettled
  /\ Finalize
  /\ UNCHANGED <<toolVars, cliVars, config, options, launched, permits, queue, jobPc, attempt,
                 calls, errors, timedOut, atDeadline>>

\* Variant of catchRace: the rejection of the race is thrown on
catchRace_rethrows(flag) == "threw"

\* catch (error) { if (timedOut) { await grace } else { throw error } }
catchRace(flag) == IF flag THEN "grace" ELSE "threw"

\* Variant of TimeoutFires: the batch is finalized when the timer fires,
\* without the grace wait
TimeoutFires_noGrace ==
  /\ Running
  /\ batchPc = "racing"
  /\ ~MicrotaskPending
  /\ timedOut' = TRUE
  /\ atDeadline' = { results[k].index : k \in 1..Len(results) }
  /\ Finalize
  /\ UNCHANGED <<toolVars, cliVars, config, options, launched, permits, queue, jobPc, attempt,
                 calls, errors>>

\* The batch timer fires first: timedOut = true and the race rejects;
\* executeBatch starts the 2000 ms grace wait.
TimeoutFires ==
  /\ Running
  /\ batchPc = "racing"
  /\ ~MicrotaskPending
  /\ timedOut' = TRUE
  /\ atDeadline' = { results[k].index : k \in 1..Len(results) }
  /\ batchPc' = catchRace(timedOut')
  /\ UNCHANGED <<toolVars, cliVars, config, options, launched, permits, queue, jobPc, attempt,
                 calls, errors, results, report>>

\* The grace timer fires.
GraceElapses ==
  /\ Running
  /\ batchPc = "grace"
  /\ ~MicrotaskPending
  /\ Finalize
  /\ UNCHANGED <<toolVars, cliVars, config, options, launched, permits, queue, jobPc, attempt,
                 calls, errors, timedOut, atDeadline>>

Next ==
  \/ LaunchJob
  \/ StartRace
  \/ \E i \in JobIds : JobResume(i)
  \/ \E i \in JobIds : ExecutorResolves(i)
  \/ \E i \in JobIds, e \in faults : ExecutorRejects(i, e)
  \/ \E i \in JobIds : RetryDelayElapses(i)
  \/ BatchAllSettled
  \/ TimeoutFires
  \/ GraceElapses

Spec == Init /\ [][Next]_vars

----------------------------------------------------------------------------
(* The batch CLI: main() *)

T0 == <<"0">>
T1 == <<"1">>
T10 == <<"1", "0">>
T11 == <<"1", "1">>
T2p5 == <<"2", ".", "5">>
T999 == <<"9", "9", "9">>
T1000 == <<"1", "0", "0", "0">>
T1001 == <<"1", "0", "0", "1">>
T60001 == <<"6", "0", "0", "0", "1">>
T3600001 == <<"3", "6", "0", "0", "0", "0", "1">>
Tabc == <<"a", "b", "c">>

\* Texts that follow --timeout, --max-concurrent, --poll-interval and
\* --max-poll-attempts on the command line
TimeoutArgs == {Undefined, Some(T999), Some(T1000), Some(T3600001), Some(Tabc)}
MaxConcurrentArgs == {Undefined, Some(T0), Some(T10), Some(T11), Some(T2p5)}
PollIntervalArgs == {Undefined, Some(T999), Some(T1000), Some(T60001)}
MaxPollAttemptsArgs == {Undefined, Some(T0), Some(T1), Some(T1001)}

\* Values of the numeric fields of the configuration file
FileMaxConcurrent == {Undefined, Some(0), Some(1), Some(10), Some(11)}
FileTimeout == {Undefined, Some(999), Some(1000), Some(3600000), Some(3600001)}
FilePollInterval == {Undefined, Some(999), Some(60000), Some(60001)}
FileMaxPollAttempts == {Undefined, Some(0), Some(1000), Some(1001)}
FileRetryPolicies ==
  {Undefined} \cup
  { Some(RetryPolicy3(mr, delay, Undefined)) :
      mr \in {Undefined, Some(0 - 1), Some(0), Some(5), Some(6)},
      delay \in {Undefined, Some(99), Some(60000)} }

FileConfigOf(jobs, mc, to, pi, mpa, rp) ==
  [ConfigOf(jobs, mc, rp) EXCEPT !.timeout = to, !.poll_interval = pi,
                                 !.max_poll_attempts = mpa]

\* Jobs of the configuration file
FileJobs ==
  { [prompt |-> pr, model |-> mo, video_url |-> vu, image_url |-> iu, image_path |-> ip,
     output_path |-> Undefined, duration |-> du, aspect_ratio |-> ar, resolution |-> Undefined] :
      pr \in {PROMPT, <<" ">>},
      mo \in {Undefined, Some("grok-imagine-video"), Some("other")},
      vu \in {Undefined, Some(URL), Some(<<>>)},
      iu \in {Undefined, Some(URL)},
      ip \in {Undefined, Some(URL)},
      du \in {Undefined, Some(5), Some(16)},
      ar \in {Undefined, Some("16:9"), Some("5:4")} }

OkFile(cfg) == [state |-> "ok", config |-> cfg]

\* Jobs of the configuration files that are only estimated: the three kinds,
\* with and without a duration
EstimateJobs ==
  { JobOf(Undefined, Undefined, Undefined, Undefined, Undefined),
    JobOf(Undefined, Undefined, Undefined, Undefined, Some(10)),
    JobOf(Undefined, Some(URL), Undefined, Undefined, Undefined),
    JobOf(Undefined, Undefined, Some(URL), Undefined, Some(3)),
    JobOf(Some(URL), Undefined, Undefined, Undefined, Undefined),
    JobOf(Some(URL), Undefined, Some(URL), Undefined, Undefined) }

EstimateJobLists == [1..3 -> EstimateJobs]

\* The output paths a job of the file states: relative below the output
\* directory, relative leaving it through "..", absolute inside it, absolute
\* in a sibling directory, absolute elsewhere
PATH_RELATIVE == <<"a">>
PATH_PARENT == <<".", ".", "/", "a">>
PATH_INSIDE == <<"/", "o", "/", "a">>

FileOutputPaths == {PATH_RELATIVE, PATH_PARENT, PATH_INSIDE, PATH_SIBLING, PATH_OUTSIDE}

\* The runs of the CLI: command line, configuration file and environment
CliInputs ==
  \* the numeric fields of the file, no options
  { [argv |-> NoArgs, env |-> Undefined,
     file |-> OkFile(FileConfigOf(<<GenerationJob>>, mc, to, pi, mpa, rp))] :
       mc \in FileMaxConcurrent, to \in FileTimeout, pi \in FilePollInterval,
       mpa \in FileMaxPollAttempts, rp \in FileRetryPolicies }
  \cup
  \* the options, over a file that states no numeric field or valid ones
  { [argv |-> ArgsOf(Undefined, to, mc, pi, mpa, eo, FALSE), env |-> Undefined,
     file |-> OkFile(f)] :
       to \in TimeoutArgs, mc \in MaxConcurrentArgs, pi \in PollIntervalArgs,
       mpa \in MaxPollAttemptsArgs, eo \in BOOLEAN,
       f \in { ConfigOf(<<GenerationJob>>, Undefined, Undefined),
               FileConfigOf(<<GenerationJob>>, Some(1), Some(1000), Some(60000),
                            Some(1000), Some(RetryPolicy3(Some(5), Some(100), Undefined))) } }
  \cup
  \* the jobs of the file
  { [argv |-> ArgsOf(Undefined, Undefined, Undefined, Undefined, Undefined, eo, FALSE),
     env |-> Undefined,
     file |-> OkFile(ConfigOf(jobs, Undefined, Undefined))] :
       eo \in BOOLEAN,
       jobs \in { <<j>> : j \in FileJobs } \cup {<<>>, <<GenerationJob, EditJob>>,
                                                [k \in 1..101 |-> GenerationJob]} }
  \cup
  \* files of three jobs with --estimate-only
  { [argv |-> ArgsOf(Undefined, Undefined, Undefined, Undefined, Undefined, TRUE, FALSE),
     env |-> Undefined,
     file |-> OkFile([ConfigOf(jobs, Undefined, Undefined) EXCEPT !.default_duration = dd])] :
       jobs \in EstimateJobLists, dd \in {Undefined, Some(8)} }
  \cup
  \* the output path of the job
  { [argv |-> ArgsOf(Undefined, Undefined, Undefined, Undefined, Undefined, FALSE, ap),
     env |-> Undefined,
     file |-> OkFile(ConfigOf(<<JobOf(Undefined, Undefined, Undefined, Some(op), Undefined)>>,
                              Undefined, Undefined))] :
       ap \in BOOLEAN, op \in FileOutputPaths }
  \cup
  \* the output directory and a file that cannot be loaded
  { [argv |-> ArgsOf(od, Undefined, Undefined, Undefined, Undefined, FALSE, ap),
     env |-> env,
     file |-> [state |-> st, config |-> ConfigOf(<<GenerationJob>>, Undefined, Undefined)]] :
       od \in {Undefined, Some(OUTPUT_DIR), Some(<<>>)}, ap \in BOOLEAN,
       env \in {Undefined, Some(CWD)}, st \in {"ok", "missing", "invalid"} }

InitCli ==
  /\ \E inp \in CliInputs :
        /\ argv = inp.argv
        /\ file = inp.file
        /\ envOutputDir = inp.env
  /\ faults = {"api503", "badRequest"}
  /\ cliPc = "start"
  /\ exitCode = Undefined
  /\ estimate = Undefined
  /\ config = NoConfig
  /\ options = NoOptions
  /\ batchPc = "idle"
  /\ launched = 0
  /\ permits = 0
  /\ queue = <<>>
  /\ jobPc = <<>>
  /\ attempt = <<>>
  /\ calls = <<>>
  /\ errors = <<>>
  /\ results = <<>>
  /\ timedOut = FALSE
  /\ atDeadline = {}
  /\ report = Undefined
  /\ ToolsIdle(NoConfig)

\* process.exit(code)
Exit(code) ==
  /\ cliPc' = "exited"
  /\ exitCode' = Some(code)

\* const { configPath, options, ... } = parseArgs()
CliParseArgs ==
  /\ cliPc = "start"
  /\ IF parseArgsOk(argv)
       THEN /\ options' = parseArgs(argv)
            /\ cliPc' = "parsed"
            /\ UNCHANGED exitCode
       ELSE /\ Exit(1)
            /\ UNCHANGED options
  /\ UNCHANGED <<toolVars, argv, file, envOutputDir, faults, estimate, config, runVars>>

\* const config = await loadBatchConfig(configPath); a missing file or
\* invalid JSON is a BatchConfigError, which main() answers with exit(1)
CliLoadBatchConfig ==
  /\ cliPc = "parsed"
  /\ IF file.state = "ok"
       THEN /\ config' = file.config
            /\ cliPc' = "loaded"
            /\ UNCHANGED exitCode
       ELSE /\ Exit(1)
            /\ UNCHANGED config
  /\ UNCHANGED <<toolVars, argv, file, envOutputDir, faults, estimate, options, runVars>>

\* validateBatchConfig(config)
CliValidateBatchConfig ==
  /\ cliPc = "loaded"
  /\ IF validateBatchConfig(config)
       THEN /\ cliPc' = "validated"
            /\ UNCHANGED exitCode
       ELSE Exit(1)
  /\ UNCHANGED <<toolVars, argv, file, envOutputDir, faults, estimate, config, options, runVars>>

\* const mergedConfig = mergeBatchConfig(config, options)
CliMergeBatchConfig ==
  /\ cliPc = "validated"
  /\ config' = mergeBatchConfig(config, options, envOutputDir)
  /\ cliPc' = "merged"
  /\ UNCHANGED <<toolVars, argv, file, envOutputDir, faults, estimate, exitCode, options, runVars>>

\* Variant of CliEstimateOnly: the estimate writes the duration it counted
\* into each job
CliEstimateOnly_fillsDurations ==
  /\ cliPc = "merged"
  /\ options.estimateOnly
  /\ estimate' = Some(estimateBatchCost(config))
  /\ config' = [config EXCEPT !.jobs =
                  [k \in 1..Len(config.jobs) |->
                     [config.jobs[k] EXCEPT !.duration =
                        Some(jobDurationOf(config.jobs[k], Val(config.default_duration)))]]]
  /\ cliPc' = "estimated"
  /\ exitCode' = Some(0)
  /\ UNCHANGED <<toolVars, argv, file, envOutputDir, faults, options, runVars>>

\* --estimate-only: estimateBatchCost(mergedConfig), then exit(0)
CliEstimateOnly ==
  /\ cliPc = "merged"
  /\ options.estimateOnly
  /\ estimate' = Some(estimateBatchCost(config))
  /\ cliPc' = "estimated"
  /\ exitCode' = Some(0)
  /\ UNCHANGED <<toolVars, argv, file, envOutputDir, faults, config, options, runVars>>

\* batchManager.executeBatch(mergedConfig, options) is called
CliExecuteBatch ==
  /\ cliPc = "merged"
  /\ ~options.estimateOnly
  /\ cliPc' = "executing"
  /\ batchPc' = "launch"
  /\ launched' = 0
  /\ permits' = maxConcurrentOf(config)
  /\ queue' = <<>>
  /\ jobPc' = [i \in 1..Len(config.jobs) |-> "idle"]
  /\ attempt' = [i \in 1..Len(config.jobs) |-> 0]
  /\ calls' = [i \in 1..Len(config.jobs) |-> 0]
  /\ errors' = [i \in 1..Len(config.jobs) |-> <<>>]
  /\ UNCHANGED <<toolVars, argv, file, envOutputDir, faults, estimate, exitCode, config, options, results,
                 timedOut, atDeadline, report>>

\* Variant of exitCodeOf: cancelled jobs do not count
exitCodeOf_failedOnly(result) == IF result.failed > 0 THEN 1 ELSE 0

\* process.exit(result.failed > 0 || result.cancelled > 0 ? 1 : 0)
exitCodeOf(result) == IF result.failed > 0 \/ result.cancelled > 0 THEN 1 ELSE 0

\* main() resumes after await executeBatch(...): it prints the report and
\* exits with exitCodeOf(result); a rejection is answered with exit(1). The
\* job tasks that were handed a permit before resume first.
CliReport ==
  /\ cliPc = "executing"
  /\ batchPc \in {"returned", "threw"}
  /\ \A i \in JobIds : jobPc[i] # "acquired"
  /\ IF batchPc = "returned" THEN Exit(exitCodeOf(Val(report))) ELSE Exit(1)
  /\ UNCHANGED <<toolVars, argv, file, envOutputDir, faults, estimate, config, options, runVars>>

NextCli ==
  \/ CliParseArgs
  \/ CliLoadBatchConfig
  \/ CliValidateBatchConfig
  \/ CliMergeBatchConfig
  \/ CliEstimateOnly
  \/ CliExecuteBatch
  \/ LaunchJob
  \/ StartRace
  \/ \E i \in JobIds : JobResume(i)
  \/ \E i \in JobIds : ExecutorResolves(i)
  \/ \E i \in JobIds, e \in faults : ExecutorRejects(i, e)
  \/ \E i \in JobIds : RetryDelayElapses(i)
  \/ BatchAllSettled
  \/ TimeoutFires
  \/ GraceElapses
  \/ CliReport

SpecCli == InitCli /\ [][NextCli]_vars

----------------------------------------------------------------------------
(* Properties of the batch run *)

\* The results recorded for job i
EntriesOf(i) == { k \in 1..Len(results) : results[k].index = i }

\* The result that job i's own task pushed
RecordedOf(i) == { k \in EntriesOf(i) : results[k].status # "cancelled" }

StatusOf(i) == results[CHOOSE k \in RecordedOf(i) : TRUE].status

\* The jobs inside the section between acquire and release
InSection == { i \in JobIds : jobPc[i] \in {"acquired", "executing", "retryDelay"} }

\* The retry pattern lists of the configurations, and for each the names of
\* the messages that contain one of its patterns
PatternLists == {DefaultRetryPatterns, <<PAT_BAD>>}

RetryableNames ==
  [pats \in PatternLists |->
     { e \in ErrorNames : \E k \in 1..Len(pats) :
          includes(toLowerCase(ErrorText(e)), toLowerCase(pats[k])) }]

\* The retry patterns as the configuration states them
ConfiguredPatterns ==
  IF config.retry_policy = Undefined THEN DefaultRetryPatterns
  ELSE IF Val(config.retry_policy).retry_on_errors = Undefined THEN DefaultRetryPatterns
  ELSE Val(Val(config.retry_policy).retry_on_errors)

\* Message e contains a configured retry pattern
Retryable(e) == e \in RetryableNames[ConfiguredPatterns]

\* Every failed attempt of job i so far had a message with a retry pattern
AllRetryable(i) == \A k \in 1..Len(errors[i]) : Retryable(errors[i][k])

\* max_retries as the configuration states it, 2 when it states none
ConfiguredMaxRetries ==
  IF config.retry_policy = Undefined THEN 2
  ELSE IF Val(config.retry_policy).max_retries = Undefined THEN 2
  ELSE Val(Val(config.retry_policy).max_retries)

\* What executeJob has to return for job i: failed when every invocation of
\* the executor failed, completed when the last one returned
RealOutcome(i) == IF Len(errors[i]) = calls[i] THEN "failed" ELSE "completed"

\* C1: at the step in which executeBatch returns its report, the results are
\* exactly one per job index, 1..N in ascending order.
C1_OneResultPerIndex ==
  [][(batchPc # "returned" /\ batchPc' = "returned") =>
       /\ Len(results') = NumJobs
       /\ \A k \in 1..NumJobs : results'[k].index = k]_vars

C1_Witness ==
  /\ batchPc = "returned"
  /\ timedOut
  /\ report # Undefined
  /\ Val(report).cancelled > 0
  /\ Val(report).succeeded + Val(report).failed > 0

C3_NoRetryWithoutPattern ==
  \A i \in JobIds : \A k \in 1..Len(errors[i]) :
     ~Retryable(errors[i][k]) => calls[i] = k

\* C4: in a report returned after the timeout, every job whose executor has
\* not returned is cancelled, and every job that had recorded its outcome
\* before the deadline has exactly that outcome.
C4_TimeoutReport ==
  (batchPc = "returned" /\ timedOut) =>
     \A i \in JobIds :
        /\ jobPc[i] # "settled" =>
              /\ Cardinality(EntriesOf(i)) = 1
              /\ \A k \in EntriesOf(i) : results[k].status = "cancelled"
        /\ i \in atDeadline =>
              /\ Cardinality(EntriesOf(i)) = 1
              /\ \A k \in EntriesOf(i) : results[k].status = RealOutcome(i)

C4_Witness ==
  /\ batchPc = "returned"
  /\ timedOut
  /\ \E i \in JobIds : jobPc[i] = "executing"
  /\ \E i \in atDeadline : StatusOf(i) = "completed"

\* C5 (as claimed): once executeBatch has returned, the results of the
\* report never change.
C5_ReportNeverChanges ==
  [][batchPc = "returned" => results' = results]_vars

\* C6 (as claimed): when executeBatch ends with a BatchConfigError, no
\* executor has been or is invoked for any job.
C6_NoExecutorOnConfigError ==
  batchPc = "threw" => \A i \in JobIds : calls[i] = 0

\* C7: a job whose executor failed r times, each time with a retry pattern,
\* with r <= max_retries, is not given up: it is invoked again, and when it
\* is settled its outcome is completed after exactly r + 1 invocations.
C7_RetryThenSucceed ==
  \A i \in JobIds :
     (AllRetryable(i) /\ Len(errors[i]) <= ConfiguredMaxRetries) =>
        /\ jobPc[i] = "settled" =>
              StatusOf(i) = "completed" /\ calls[i] = Len(errors[i]) + 1
        /\ jobPc[i] = "executing" => calls[i] = Len(errors[i]) + 1
        /\ jobPc[i] = "retryDelay" => calls[i] = Len(errors[i])

C7_Witness ==
  \E i \in JobIds :
     /\ jobPc[i] = "settled"
     /\ Len(errors[i]) = 2
     /\ AllRetryable(i)
     /\ StatusOf(i) = "completed"
     /\ calls[i] = 3

\* C8: a job whose executor fails every time with a retry pattern is invoked
\* exactly max_retries + 1 times and is then recorded failed with the last
\* message; with max_retries = 0 there is one attempt.
C8_RetryExhaustion ==
  \A i \in JobIds :
     AllRetryable(i) =>
        /\ calls[i] <= ConfiguredMaxRetries + 1
        /\ Len(errors[i]) = ConfiguredMaxRetries + 1 =>
              /\ jobPc[i] = "settled"
              /\ StatusOf(i) = "failed"
              /\ calls[i] = ConfiguredMaxRetries + 1
              /\ \A k \in RecordedOf(i) :
                    results[k].error = Some(errors[i][Len(errors[i])])
        /\ (jobPc[i] = "settled" /\ StatusOf(i) = "failed") =>
              calls[i] = ConfiguredMaxRetries + 1

C8_Witness ==
  /\ \E i \in JobIds :
        /\ ConfiguredMaxRetries = 0
        /\ jobPc[i] = "settled"
        /\ StatusOf(i) = "failed"
        /\ AllRetryable(i)
        /\ calls[i] = 1
  /\ \E j \in JobIds : jobPc[j] = "executing"

----------------------------------------------------------------------------
(* Properties of the CLI pipeline *)

\* A job with a source video and an image reference in either form
VideoAndImage(job) ==
  Truthy(job.video_url) /\ (Truthy(job.image_url) \/ Truthy(job.image_path))

\* C9 (as claimed): a configuration that has passed validateBatchConfig, and
\* so goes on to estimation or execution, has no job with both a video_url
\* and an image reference (image_url or image_path).
C9_VideoWithImageRejected ==
  cliPc \in {"validated", "merged", "estimated", "executing"} =>
     \A k \in 1..Len(config.jobs) : ~VideoAndImage(config.jobs[k])

\* C10 (as claimed): the configuration with which the CLI calls executeBatch
\* satisfies every documented numeric bound.
C10_BoundsAtExecute ==
  cliPc = "executing" =>
     /\ Val(config.max_concurrent) \in 1..10
     /\ Val(config.timeout) \in 1000..3600000
     /\ Val(config.poll_interval) \in 1000..60000
     /\ Val(config.max_poll_attempts) \in 1..1000
     /\ Coalesce(Val(config.retry_policy).max_retries, 2) \in 0..5

----------------------------------------------------------------------------
(* Failure isolation, termination and fairness of the batch run *)

\* The launch loop stopped at a job whose output path is a BatchConfigError
StoppedAtConfigError ==
  /\ launched < NumJobs
  /\ resolveOutputPath(config.jobs[launched + 1], launched, outputDirOf(config),
                       options.allowAnyPath) = ConfigError

\* C11: a failing executor never makes executeBatch throw (it throws only for
\* a configuration error), never loses a permit (the permits held and free
\* always add up to max_concurrent, and none is free while a job waits), the
\* job that settles has one result with the outcome its own executor
\* produced, and a run that returns without timeout has executed every job.
C11_FailureIsolated ==
  /\ batchPc = "threw" => StoppedAtConfigError
  /\ permits + Cardinality(InSection) = OrElseNum(config.max_concurrent, 2)
  /\ queue # <<>> => permits = 0
  /\ \A i \in JobIds :
        jobPc[i] = "settled" =>
           /\ Cardinality(RecordedOf(i)) = 1
           /\ StatusOf(i) = RealOutcome(i)
  /\ (batchPc = "returned" /\ ~timedOut) =>
        \A i \in JobIds : jobPc[i] = "settled" /\ calls[i] >= 1

C11_Witness ==
  /\ batchPc = "returned"
  /\ ~timedOut
  /\ OrElseNum(config.max_concurrent, 2) = 1
  /\ NumJobs >= 2
  /\ StatusOf(1) = "failed"
  /\ StatusOf(2) = "completed"

\* The runs of the liveness specifications: one retry, for messages that
\* contain "bad request"
InitLive ==
  /\ Init
  /\ config.retry_policy = Some(RetryPolicyOf(Some(1), Some(<<PAT_BAD>>)))
  /\ faults = {"api503", "badRequest"}

\* A step of the event loop other than the completion of an executor call
\* or of a retry delay: the launch loop, a queued promise reaction, the
\* batch timer, the grace timer
EventLoopStep ==
  \/ LaunchJob
  \/ StartRace
  \/ \E i \in JobIds : JobResume(i)
  \/ BatchAllSettled
  \/ TimeoutFires
  \/ GraceElapses

\* The event loop keeps running what is ready; nothing is assumed about the
\* executors, which may never return.
SpecTimeout == InitLive /\ [][Next]_vars /\ WF_vars(EventLoopStep)

\* C12: once the launch loop is over, executeBatch eventually returns its
\* report, whether or not the executors ever return, and it never throws
\* after the batch timer has fired.
C12_AlwaysReturns ==
  /\ (batchPc = "racing") ~> (batchPc = "returned")
  /\ [](batchPc = "threw" => ~timedOut)

C12_Witness ==
  /\ batchPc = "returned"
  /\ timedOut
  /\ NumJobs >= 2
  /\ \A i \in JobIds : jobPc[i] \in {"executing", "queued"}
  /\ Val(report).cancelled = NumJobs

\* Every step that is ready is eventually taken: the event loop runs, and
\* every executor call eventually returns or fails.
SpecFair == InitLive /\ [][Next]_vars /\ WF_vars(Next)

\* C13: a job that is queued on the semaphore is eventually handed a permit
\* and starts executing.
C13_QueuedEventuallyExecutes ==
  \A i \in 1..MaxJobs :
     (i \in JobIds /\ jobPc[i] = "queued") ~> (i \in JobIds /\ jobPc[i] = "executing")

C13_Witness ==
  /\ OrElseNum(config.max_concurrent, 2) = 1
  /\ NumJobs >= 2
  /\ jobPc[1] = "settled"
  /\ jobPc[NumJobs] = "executing"
  /\ calls[NumJobs] = 1

----------------------------------------------------------------------------
(* Properties of the cost estimate *)

JobKinds == {"generation", "image_to_video", "edit"}

\* The kind under which executeJob dispatches job: editVideo for an edit
\* job, generateVideo with or without an image otherwise
DispatchKind(job) ==
  IF isEditJob(job) THEN "edit"
  ELSE IF isImageToVideoJob(job) THEN "image_to_video"
  ELSE "generation"

\* The kind a result is reported under: is_edit, else is_image_to_video
ResultKind(r) ==
  IF Val(r.is_edit) THEN "edit"
  ELSE IF Val(r.is_image_to_video) THEN "image_to_video"
  ELSE "generation"

\* The count of the bucket of a kind in an estimate, 0 when it has none
EstimateCount(est, kind) ==
  LET b == { k \in 1..Len(est.breakdown) : est.breakdown[k].type = kind }
  IN IF b = {} THEN 0 ELSE est.breakdown[CHOOSE k \in b : TRUE].count

----------------------------------------------------------------------------
(* Properties of output path resolution *)

\* The resolved path p is dir itself or lies below it
isInside(p, dir) == p = dir \/ startsWith(p, dir \o <<"/">>)

\* Job i states an absolute output path outside the output directory
HasOutsidePath(i) ==
  /\ Truthy(config.jobs[i].output_path)
  /\ isAbsolute(Val(config.jobs[i].output_path))
  /\ ~isInside(pathResolve(Val(config.jobs[i].output_path)),
               pathResolve(outputDirOf(config)))

\* C15 (as claimed): without allowAnyPath, resolveOutputPath fails for every
\* job with an absolute output path outside the output directory, so the
\* launch loop never gets past such a job.
C15_OutsidePathRejected ==
  ~options.allowAnyPath => \A i \in 1..launched : ~HasOutsidePath(i)

\* The jobs of a kind, by the rule: Edit when video_url is present, otherwise
\* ImageToVideo when image_url or image_path is present, otherwise Generation
JobsOfKind(kind) == { k \in 1..Len(config.jobs) : DispatchKind(config.jobs[k]) = kind }

\* The seconds a job counts for: 5 for an Edit, else its duration, else the
\* default duration
SecondsOf(k) ==
  IF DispatchKind(config.jobs[k]) = "edit" THEN 5
  ELSE IF config.jobs[k].duration # Undefined THEN Val(config.jobs[k].duration)
  ELSE IF config.default_duration # Undefined THEN Val(config.default_duration)
  ELSE DEFAULT_DURATION

RECURSIVE SumSeconds(_)
SumSeconds(S) ==
  IF S = {} THEN 0
  ELSE LET k == CHOOSE x \in S : TRUE IN SecondsOf(k) + SumSeconds(S \ {k})

\* The sum of a field over the buckets of a breakdown
RECURSIVE SumField(_, _, _)
SumField(breakdown, field, k) ==
  IF k > Len(breakdown) THEN 0
  ELSE breakdown[k][field] + SumField(breakdown, field, k + 1)

\* Rates in thousandths of a dollar per second, and the bonus per job
RateOf(kind) == IF kind = "edit" THEN 70 ELSE 50

BonusOf(kind) == IF kind = "image_to_video" THEN 10 ELSE 0

\* C16: the estimate printed by --estimate-only has one bucket for each kind
\* that occurs and none for the others; a bucket's count and totalDuration
\* are those of the jobs of its kind, costMin is rate x totalDuration plus
\* the bonus per ImageToVideo job, costMax is 1.2 x costMin; the totals are
\* the sums over the buckets, the counts add up to totalJobs, and
\* estimatedCostMin <= estimatedCostMax.
C16_EstimateBreakdown ==
  estimate # Undefined =>
     LET est == Val(estimate)
         bd == est.breakdown
     IN /\ est.totalJobs = Len(config.jobs)
        /\ \A kind \in JobKinds :
              LET b == { k \in 1..Len(bd) : bd[k].type = kind }
              IN /\ Cardinality(b) = IF JobsOfKind(kind) = {} THEN 0 ELSE 1
                 /\ \A k \in b :
                       /\ bd[k].count = Cardinality(JobsOfKind(kind))
                       /\ bd[k].totalDuration = SumSeconds(JobsOfKind(kind))
                       /\ bd[k].costMin = RateOf(kind) * bd[k].totalDuration
                                            + BonusOf(kind) * bd[k].count
                       /\ 10 * bd[k].costMax = 12 * bd[k].costMin
        /\ \A k \in 1..Len(bd) : bd[k].type \in JobKinds
        /\ SumField(bd, "count", 1) = est.totalJobs
        /\ est.totalVideoDuration = SumField(bd, "totalDuration", 1)
        /\ est.estimatedCostMin = SumField(bd, "costMin", 1)
        /\ est.estimatedCostMax = SumField(bd, "costMax", 1)
        /\ est.estimatedCostMin <= est.estimatedCostMax

C16_Witness ==
  /\ estimate # Undefined
  /\ Len(Val(estimate).breakdown) = 2
  /\ \E k \in 1..2 :
        /\ Val(estimate).breakdown[k].type = "image_to_video"
        /\ Val(estimate).breakdown[k].count = 2
        /\ Val(estimate).breakdown[k].totalDuration = 11
  /\ \E k \in 1..2 : Val(estimate).breakdown[k].type = "edit"

----------------------------------------------------------------------------
(* Properties of the CLI after the batch run *)

\* C18: when the CLI has exited after executeBatch returned its report, the
\* exit code is 0 exactly when the report has failed = 0 and cancelled = 0,
\* in which case every job is completed, and 1 otherwise.
C18_ExitCode ==
  (cliPc = "exited" /\ batchPc = "returned") =>
     /\ exitCode \in {Some(0), Some(1)}
     /\ exitCode = Some(0) <=> (Val(report).failed = 0 /\ Val(report).cancelled = 0)
     /\ exitCode = Some(0) =>
           /\ Val(report).succeeded = Val(report).total
           /\ Len(results) = NumJobs
           /\ \A k \in 1..Len(results) : results[k].status = "completed"

C18_Witness ==
  /\ cliPc = "exited"
  /\ batchPc = "returned"
  /\ exitCode = Some(1)
  /\ Val(report).failed = 0
  /\ Val(report).cancelled > 0
  /\ Val(report).succeeded > 0

\* A job that states both forms of image reference
BothImages(job) == Truthy(job.image_url) /\ Truthy(job.image_path)

\* C19 (as claimed): a job with both image_url and image_path is never
\* counted in an estimate, launched or handed to the executor, because its
\* configuration is rejected by validateBatchConfig.
C19_BothImagesRejected ==
  \A k \in 1..Len(config.jobs) :
     BothImages(config.jobs[k]) =>
        /\ estimate = Undefined
        /\ batchPc # "idle" => (launched < k /\ calls[k] = 0)

----------------------------------------------------------------------------
(* Properties of the default retry policy *)

\* C20 (as claimed): with no retry_on_errors configured, an attempt that
\* fails with the message of an HTTP 429 answer while attempts remain puts
\* the job into the retry delay before the executor is invoked again.
C20_RateLimitRetried ==
  [][\A i \in JobIds :
       ( /\ ConfiguredPatterns = DefaultRetryPatterns
         /\ Len(errors'[i]) = Len(errors[i]) + 1
         /\ errors'[i][Len(errors'[i])] = "rateLimited"
         /\ Len(errors'[i]) <= ConfiguredMaxRetries )
       => jobPc'[i] = "retryDelay"]_vars

----------------------------------------------------------------------------
(* The grace period *)

\* The results that the array will hold for job i after the step
EntriesAfter(i) == { k \in 1..Len(results') : results'[k].index = i }

\* C21: when the batch timer fires, the batch is not finalized in that step
\* but enters the grace wait; and at the step that ends the grace wait, every
\* job whose own task recorded its outcome after the deadline has exactly one
\* result in the report, with the outcome executeJob returned.
C21_GraceOutcomesReported ==
  [][/\ (~timedOut /\ timedOut') => (batchPc' = "grace" /\ report' = Undefined)
     /\ (batchPc = "grace" /\ batchPc' = "returned") =>
           \A i \in JobIds :
              (RecordedOf(i) # {} /\ i \notin atDeadline) =>
                 /\ Cardinality(EntriesAfter(i)) = 1
                 /\ \A k \in EntriesAfter(i) : results'[k].status = RealOutcome(i)]_vars

C21_Witness ==
  /\ batchPc = "returned"
  /\ timedOut
  /\ report # Undefined
  /\ \E i \in JobIds :
        /\ i \notin atDeadline
        /\ Cardinality(EntriesOf(i)) = 1
        /\ RecordedOf(i) # {}
        /\ StatusOf(i) = "failed"
  /\ \E j \in JobIds : Cardinality(EntriesOf(j)) = 1 /\ RecordedOf(j) = {}

----------------------------------------------------------------------------
(* The semaphore's permits *)

----------------------------------------------------------------------------
(* The order of admission *)

\* A batch of MaxJobs + 1 jobs behind a single permit: every job but the
\* first waits in the queue
OrderJobs == [i \in 1..(MaxJobs + 1) |-> GenerationJob]

InitOrder ==
  /\ argv = NoArgs
  /\ file = NoFile
  /\ envOutputDir = Undefined
  /\ faults = {"api503"}
  /\ cliPc = "none"
  /\ exitCode = Undefined
  /\ estimate = Undefined
  /\ config = ConfigOf(OrderJobs, Some(1), Some(RetryPolicyOf(Some(1), Undefined)))
  /\ options = NoOptions
  /\ StartBatch(config)
  /\ ToolsIdle(config)

SpecOrder == InitOrder /\ [][Next]_vars

\* Job i has acquired its permit
Admitted(i) == jobPc[i] \in {"acquired", "executing", "retryDelay", "settled"}

\* C28: for job indices i < j, job j holds its permit, or has had its executor
\* invoked, only if job i has acquired its own permit.
C28_AdmittedInIndexOrder ==
  \A i \in JobIds : \A j \in JobIds :
     (i < j /\ (Admitted(j) \/ calls[j] > 0)) => Admitted(i)

C28_Witness ==
  /\ NumJobs >= 3
  /\ jobPc[1] = "settled"
  /\ jobPc[2] = "retryDelay"
  /\ jobPc[3] = "queued"
  /\ queue = <<3>>

----------------------------------------------------------------------------
(* One acquire and one release per job task *)

\* Job i's task settles in the step
SettlesNow(i) == jobPc[i] # "settled" /\ jobPc'[i] = "settled"

\* The semaphore gives a permit back or on in the step
ReleasesNow == permits' > permits \/ Len(queue') < Len(queue)

\* C29: a job task gets its permit once, from idle or from the queue, and
\* keeps it through every attempt and retry delay until it settles; a permit
\* is released only in the step in which a task settles, exactly one per
\* settling task, so a queued job gets a permit only when a task settles.
C29_PermitHeldAcrossRetries ==
  [][/\ \A i \in JobIds :
           /\ (jobPc[i] # "acquired" /\ jobPc'[i] = "acquired") =>
                 jobPc[i] \in {"idle", "queued"}
           /\ jobPc[i] \in {"acquired", "executing", "retryDelay"} =>
                 jobPc'[i] \in {"acquired", "executing", "retryDelay", "settled"}
           /\ jobPc[i] = "settled" => jobPc'[i] = "settled"
           /\ (jobPc[i] = "queued" /\ jobPc'[i] = "acquired") =>
                 \E j \in JobIds : SettlesNow(j)
           /\ SettlesNow(i) =>
                 /\ jobPc[i] \in {"executing", "retryDelay"}
                 /\ ~loopContinues(attempt'[i], maxRetriesOf(config))
                       \/ Len(errors'[i]) < calls'[i]
     /\ ReleasesNow <=> \E i \in JobIds : SettlesNow(i)
     /\ ReleasesNow => (permits' - permits) + (Len(queue) - Len(queue')) = 1]_vars

C29_Witness ==
  /\ NumJobs = 2
  /\ maxConcurrentOf(config) = 1
  /\ jobPc[1] = "settled"
  /\ calls[1] = 2
  /\ Len(errors[1]) = 1
  /\ jobPc[2] = "acquired"
  /\ calls[2] = 0
  /\ permits = 0

----------------------------------------------------------------------------
(* Cancelled results *)

\* C30: a cancelled result exists only after the batch timer fired, and only
\* for a job that had recorded no outcome when it fired; the timer fires only
\* while some job task is unsettled; and when all job tasks settle first,
\* executeBatch returns in the step after, with no grace wait and cancelled = 0.
C30_CancelledOnlyAfterDeadline ==
  [][/\ \A k \in 1..Len(results') :
           results'[k].status = "cancelled" =>
              /\ timedOut'
              /\ batchPc' = "returned"
              /\ results'[k].index \notin atDeadline'
     /\ (~timedOut /\ timedOut') => ~AllSettled
     /\ (batchPc = "racing" /\ AllSettled /\ batchPc' # batchPc) =>
           /\ batchPc' = "returned"
           /\ ~timedOut'
           /\ report' # Undefined
           /\ Val(report').cancelled = 0
           /\ Val(report').succeeded + Val(report').failed = NumJobs]_vars

C30_Witness ==
  /\ batchPc = "returned"
  /\ ~timedOut
  /\ AllSettled
  /\ NumJobs = 2
  /\ report # Undefined
  /\ Val(report).cancelled = 0
  /\ Val(report).succeeded = 1
  /\ Val(report).failed = 1

----------------------------------------------------------------------------
(* Jobs that were waiting when the report was returned *)

\* C25 (as claimed): a job whose executor had not been invoked when
\* executeBatch returned its report, because its task was still waiting for a
\* permit, never has its executor invoked afterwards.
C25_WaitingJobNeverStarts ==
  [][\A i \in JobIds :
        (batchPc = "returned" /\ calls[i] = 0 /\ jobPc[i] \in {"queued", "acquired"}) =>
           calls'[i] = 0]_vars

----------------------------------------------------------------------------
(* The resolved output paths *)

\* The path resolveOutputPath returned for launched job i
ResolvedPath(i) ==
  resolveOutputPath(config.jobs[i], i - 1, outputDirOf(config), options.allowAnyPath)

\* C27 (as claimed): without allowAnyPath, the path resolveOutputPath returned
\* for a launched job that states a relative output path, or none, lies
\* inside the output directory.
C27_RelativePathInside ==
  ~options.allowAnyPath =>
     \A i \in 1..launched :
        (Truthy(config.jobs[i].output_path) => ~isAbsolute(Val(config.jobs[i].output_path)))
          => isInside(pathResolve(ResolvedPath(i)), pathResolve(outputDirOf(config)))

----------------------------------------------------------------------------
(* pollVideoResult *)

MaxPollAttempts == 3

\* The answers of GET /v1/videos/{request_id}: the HTTP status and the parsed
\* body (XAIVideoGenerationResult)
BodyOf(status, video, error) == [status |-> status, video |-> video, error |-> error]

NoBody == BodyOf(Undefined, Undefined, Undefined)

VIDEO == [url |-> URL, duration |-> 5]

R_SERVER_ERROR == [http |-> 503, body |-> NoBody]
R_NOT_FOUND == [http |-> 404, body |-> NoBody]
R_PENDING == [http |-> 200, body |-> BodyOf(Some("pending"), Undefined, Undefined)]
R_FAILED == [http |-> 200, body |-> BodyOf(Some("failed"), Undefined, Some("e"))]
\* the completed answer as types/tools.ts documents it: no status field
R_COMPLETED == [http |-> 200, body |-> BodyOf(Undefined, Some(VIDEO), Undefined)]
\* a completed answer that states its status
R_COMPLETED_STATUS == [http |-> 200, body |-> BodyOf(Some("completed"), Some(VIDEO), Undefined)]

PollResponses ==
  {R_SERVER_ERROR, R_NOT_FOUND, R_PENDING, R_FAILED, R_COMPLETED, R_COMPLETED_STATUS}

\* Response.ok
responseOk(r) == r.http >= 200 /\ r.http <= 299

Returned(body) == Some([kind |-> "returned", body |-> body, message |-> "none"])

Threw(message) == Some([kind |-> "threw", body |-> NoBody, message |-> message])

\* Variant of pollLoopContinues: one attempt more
pollLoopContinues_oneMore(att, max) == att <= max + 1

\* pollVideoResult: the condition of for (let attempt = 1; attempt <= maxAttempts; attempt++)
pollLoopContinues(att, max) == att <= max

\* The for loop of pollVideoResult comes to its test with attempt = att: the
\* status request is sent, or the loop ends and the function throws
PollLoopTo(att) ==
  /\ pollAttempt' = att
  /\ IF pollLoopContinues(att, maxAttempts)
       THEN /\ pollPc' = "fetching"
            /\ pollRequests' = pollRequests + 1
            /\ UNCHANGED pollOutcome
       ELSE /\ pollPc' = "threw"
            /\ pollOutcome' = Threw("Video generation timed out")
            /\ UNCHANGED pollRequests

\* generateVideo calls pollVideoResult(apiKey, request_id, pollInterval, maxPollAttempts)
PollStart ==
  /\ pollPc = "idle"
  /\ PollLoopTo(1)
  /\ UNCHANGED <<cliVars, config, options, runVars, execVars, maxAttempts, polled>>

\* The status request is answered with r
PollResponse(r) ==
  /\ pollPc = "fetching"
  /\ polled' = Append(polled, r)
  /\ IF ~responseOk(r)
       THEN IF r.http >= 500 /\ pollAttempt < maxAttempts
              THEN /\ pollPc' = "sleeping"
                   /\ UNCHANGED <<pollAttempt, pollRequests, pollOutcome>>
              ELSE /\ pollPc' = "threw"
                   /\ pollOutcome' = Threw("Failed to get video status")
                   /\ UNCHANGED <<pollAttempt, pollRequests>>
     ELSE IF r.body.status = Some("completed")
       THEN /\ pollPc' = "returned"
            /\ pollOutcome' = Returned(r.body)
            /\ UNCHANGED <<pollAttempt, pollRequests>>
     ELSE IF r.body.status = Some("failed")
       THEN /\ pollPc' = "threw"
            /\ pollOutcome' = Threw("Video generation failed")
            /\ UNCHANGED <<pollAttempt, pollRequests>>
     ELSE IF pollAttempt < maxAttempts
       THEN /\ pollPc' = "sleeping"
            /\ UNCHANGED <<pollAttempt, pollRequests, pollOutcome>>
     ELSE PollLoopTo(pollAttempt + 1)
  /\ UNCHANGED <<cliVars, config, options, runVars, execVars, maxAttempts>>

\* sleep(pollInterval) is over: attempt++ and the loop test
PollSleepElapses ==
  /\ pollPc = "sleeping"
  /\ PollLoopTo(pollAttempt + 1)
  /\ UNCHANGED <<cliVars, config, options, runVars, execVars, maxAttempts, polled>>

\* generateVideo after pollVideoResult returned: if (!result.video?.url) throw,
\* otherwise downloadAndSaveVideo
GenerateAfterPoll ==
  /\ pollPc = "returned"
  /\ IF Val(pollOutcome).body.video = Undefined
          \/ ~Truthy(Some(Val(Val(pollOutcome).body.video).url))
       THEN /\ pollPc' = "threw"
            /\ pollOutcome' = Threw("No video URL in completed response")
       ELSE /\ pollPc' = "downloading"
            /\ UNCHANGED pollOutcome
  /\ UNCHANGED <<cliVars, config, options, runVars, execVars, pollAttempt, maxAttempts,
                 pollRequests, polled>>

NextPoll ==
  \/ PollStart
  \/ \E r \in PollResponses : PollResponse(r)
  \/ PollSleepElapses
  \/ GenerateAfterPoll

\* One call of pollVideoResult, with maxAttempts from 1 to MaxPollAttempts
InitPoll ==
  /\ argv = NoArgs
  /\ file = NoFile
  /\ envOutputDir = Undefined
  /\ faults = {}
  /\ cliPc = "none"
  /\ exitCode = Undefined
  /\ estimate = Undefined
  /\ config = NoConfig
  /\ options = NoOptions
  /\ batchPc = "idle"
  /\ launched = 0
  /\ permits = 0
  /\ queue = <<>>
  /\ jobPc = <<>>
  /\ attempt = <<>>
  /\ calls = <<>>
  /\ errors = <<>>
  /\ results = <<>>
  /\ timedOut = FALSE
  /\ atDeadline = {}
  /\ report = Undefined
  /\ fs = {}
  /\ exPath = <<>>
  /\ pollPc = "idle"
  /\ pollAttempt = 0
  /\ maxAttempts \in 1..MaxPollAttempts
  /\ pollRequests = 0
  /\ polled = <<>>
  /\ pollOutcome = Undefined

\* Every status request is answered and every sleep timer fires
SpecPoll == InitPoll /\ [][NextPoll]_vars /\ WF_vars(NextPoll)

\* C23 (as claimed): when a status request is answered with the documented
\* completed response (a video with url and duration, no status field),
\* pollVideoResult returns that response on that attempt.
C23_DocumentedCompletedReturns ==
  (polled # <<>> /\ polled[Len(polled)] = R_COMPLETED) =>
     /\ pollPc \in {"returned", "downloading"}
     /\ pollOutcome = Returned(R_COMPLETED.body)

\* The response neither completes nor fails the poll: a 5xx answer, or an
\* answer whose status is neither completed nor failed
KeepsPolling(r) ==
  IF responseOk(r) THEN r.body.status \notin {Some("completed"), Some("failed")}
  ELSE r.http >= 500

PollEnded == pollPc \in {"returned", "downloading", "threw"}

\* C24: pollVideoResult never sends more than maxAttempts status requests;
\* after an answer that keeps it polling it sends another request only while
\* attempts remain; when every answer kept it polling, it ends by throwing
\* after exactly maxAttempts requests; and every call ends.
C24_PollBoundedAndTerminates ==
  /\ [](/\ pollRequests <= maxAttempts
        /\ Len(polled) <= pollRequests
        /\ pollPc = "sleeping" => pollRequests < maxAttempts
        /\ (PollEnded /\ \A k \in 1..Len(polled) : KeepsPolling(polled[k])) =>
              /\ pollPc = "threw"
              /\ pollRequests = maxAttempts
              /\ Len(polled) = maxAttempts)
  /\ <>PollEnded

C24_Witness ==
  /\ pollPc = "threw"
  /\ maxAttempts = MaxPollAttempts
  /\ pollRequests = maxAttempts
  /\ polled[1] = R_SERVER_ERROR
  /\ polled[2] = R_PENDING
  /\ polled[Len(polled)] = R_SERVER_ERROR

----------------------------------------------------------------------------
(* generateVideo: the output file *)

\* The index of the last occurrence of character c in s, 0 when there is none
lastIndexOf(s, c) ==
  LET at == { k \in 1..Len(s) : s[k] = c } IN
  IF at = {} THEN 0 ELSE CHOOSE k \in at : \A m \in at : m <= k

\* The last segment of a path
lastSegment(p) == SubSeq(p, lastIndexOf(p, "/") + 1, Len(p))

\* path.extname: from the last "." of the last segment, "" when there is
\* none or when the segment starts with it
extname(p) ==
  LET base == lastSegment(p)
      dot == lastIndexOf(base, ".")
  IN IF dot <= 1 THEN <<>> ELSE SubSeq(base, dot, Len(base))

\* path.basename(p, ext)
basename(p, ext) ==
  LET base == lastSegment(p) IN
  IF ext # <<>> /\ Len(base) > Len(ext)
       /\ SubSeq(base, Len(base) - Len(ext) + 1, Len(base)) = ext
    THEN SubSeq(base, 1, Len(base) - Len(ext))
    ELSE base

\* path.dirname
dirname(p) ==
  LET slash == lastIndexOf(p, "/") IN
  IF slash = 0 THEN <<".">>
  ELSE IF slash = 1 THEN <<"/">>
  ELSE SubSeq(p, 1, slash - 1)

\* normalizeAndValidatePath: a relative path is joined to OUTPUT_DIR or the
\* working directory
normalizeAndValidatePath(outputPath, env) ==
  IF isAbsolute(outputPath) THEN outputPath
  ELSE pathJoin(IF Truthy(env) THEN Val(env) ELSE CWD, outputPath)

\* fileExists: fs.access succeeds
fileExists(filePath, files) == filePath \in files

\* The while loop of generateUniqueFilePath from counter on
RECURSIVE uniquePathFrom(_, _, _, _)
uniquePathFrom(filePath, uniquePath, counter, files) ==
  IF fileExists(uniquePath, files)
    THEN LET ext == extname(filePath)
             next == counter + 1
         IN uniquePathFrom(filePath,
                           pathJoin(dirname(filePath),
                                    basename(filePath, ext) \o <<"_">> \o NumberText(next) \o ext),
                           next, files)
    ELSE uniquePath

\* generateUniqueFilePath(filePath), with the files that exist when it runs
generateUniqueFilePath(filePath, files) == uniquePathFrom(filePath, filePath, 0, files)

\* executeJob's completed result with the output_path generateVideo returned
CompletedResultAt(i, job, path) ==
  [index |-> i, status |-> "completed", error |-> Undefined,
   is_edit |-> Some(isEditJob(job)), is_image_to_video |-> Some(isImageToVideoJob(job)),
   output_path |-> Some(path)]

\* generateVideo, lines 73-75: the executor of job i settles its output path
ExecChoosePath(i) ==
  /\ Running
  /\ batchPc # "launch"
  /\ ~MicrotaskPending
  /\ jobPc[i] = "executing"
  /\ exPath[i] = Undefined
  /\ exPath' = [exPath EXCEPT ![i] =
                  Some(generateUniqueFilePath(
                         normalizeAndValidatePath(ResolvedPath(i), envOutputDir), fs))]
  /\ UNCHANGED <<cliVars, config, options, runVars, fs, pollVars>>

\* generateVideo, lines 228-239: the video is written to normalizedPath and
\* the executor returns; executeJob returns the completed result
ExecDownload(i) ==
  /\ Running
  /\ batchPc # "launch"
  /\ ~MicrotaskPending
  /\ jobPc[i] = "executing"
  /\ exPath[i] # Undefined
  /\ fs' = fs \cup {Val(exPath[i])}
  /\ Settle(i, CompletedResultAt(i, config.jobs[i], Val(exPath[i])))
  /\ UNCHANGED <<cliVars, config, options, batchPc, launched, attempt, calls, errors,
                 timedOut, atDeadline, report, exPath, pollVars>>

\* generateVideo throws after it settled the path (validation, the create
\* request, the poll or the download failed): executeJob's catch block
ExecFails(i, e) ==
  /\ Running
  /\ batchPc # "launch"
  /\ ~MicrotaskPending
  /\ jobPc[i] = "executing"
  /\ exPath[i] # Undefined
  /\ exPath' = [exPath EXCEPT ![i] = Undefined]
  /\ IF shouldRetry(attempt[i], maxRetriesOf(config), ErrorText(e), retryPatternsOf(config))
       THEN /\ jobPc' = [jobPc EXCEPT ![i] = "retryDelay"]
            /\ errors' = [errors EXCEPT ![i] = Append(@, e)]
            /\ UNCHANGED <<attempt, calls, permits, queue, results>>
       ELSE NextAttempt(i, attempt[i] + 1, Append(errors[i], e))
  /\ UNCHANGED <<cliVars, config, options, batchPc, launched, timedOut, atDeadline, report,
                 fs, pollVars>>

NextExec ==
  \/ LaunchJob
  \/ StartRace
  \/ \E i \in JobIds : JobResume(i)
  \/ \E i \in JobIds : ExecChoosePath(i)
  \/ \E i \in JobIds : ExecDownload(i)
  \/ \E i \in JobIds, e \in faults : ExecFails(i, e)
  \/ \E i \in JobIds : RetryDelayElapses(i)
  \/ BatchAllSettled
  \/ TimeoutFires
  \/ GraceElapses

\* The first two jobs state the same output path, every further job another one
PATH_VIDEO == <<"/", "o", "/", "a", ".", "m">>

PATH_OTHER == <<"/", "o", "/", "b", ".", "m">>

SamePathJobs ==
  [i \in 1..MaxJobs |->
     JobOf(Undefined, Undefined, Undefined,
           Some(IF i <= 2 THEN PATH_VIDEO ELSE PATH_OTHER), Undefined)]

\* executeBatch on these jobs, with and without a file at the stated path
InitExec ==
  /\ argv = NoArgs
  /\ file = NoFile
  /\ envOutputDir = Undefined
  /\ faults = {"api503"}
  /\ cliPc = "none"
  /\ exitCode = Undefined
  /\ estimate = Undefined
  /\ config \in { ConfigOf(SamePathJobs, mc, Some(RetryPolicyOf(Some(1), Undefined))) :
                    mc \in {Undefined, Some(1)} }
  /\ options = NoOptions
  /\ StartBatch(config)
  /\ fs \in {{}, {PATH_VIDEO}}
  /\ exPath = [i \in 1..Len(config.jobs) |-> Undefined]
  /\ pollPc = "idle"
  /\ pollAttempt = 0
  /\ maxAttempts = 0
  /\ pollRequests = 0
  /\ polled = <<>>
  /\ pollOutcome = Undefined

SpecExec == InitExec /\ [][NextExec]_vars

\* C26 (as claimed): two jobs of a batch that both completed report
\* different output paths.
C26_DistinctOutputFiles ==
  \A k \in 1..Len(results) : \A m \in 1..Len(results) :
     (/\ results[k].index # results[m].index
      /\ results[k].status = "completed"
      /\ results[m].status = "completed")
       => results[k].output_path # results[m].output_path

====
